---- MODULE Spec2Model ----
(***************************************************************************)
(* State-machine model of the ADX matching engine                          *)
(* (src/pkg/dex/adx_matching_engine.cpp, class adx::ADXMatchingEngine).    *)
(*                                                                         *)
(* The clock is steady_clock read in nanoseconds.  Price (int64_t) and     *)
(* Quantity (uint64_t) are machine words; TLC's integers are 32 bits wide, *)
(* so the model keeps the two's-complement behaviour of the words but      *)
(* scales their width down to WordBits bits.  Not modelled: the strings    *)
(* publisher, placement and trader and the field min_viewability (never    *)
(* read by the engine), and processing_time / avg_match_latency (wall      *)
(* clock measurements).                                                    *)
(***************************************************************************)
EXTENDS Integers, Sequences, FiniteSets, TLC

---------------------------------------------------------------------------
(* Bounds of the model *)

WordBits == 7
MaxOrders == 3
MaxTime == 1
MaxPrice == 2
MaxQty == 2
MaxMatches == 2
MaxSwap == 2
MaxReserve == 4
MaxWindow == 4

(* Program constants *)

NsPerMs == 1000000

---------------------------------------------------------------------------
(* Machine words *)

RECURSIVE Pow2(_)
Pow2(n) == IF n = 0 THEN 1 ELSE 2 * Pow2(n - 1)

\* number of values of a word
Word == Pow2(WordBits)

\* using Price = int64_t
PriceMin == 0 - (Word \div 2)
PriceMax == (Word \div 2) - 1
PriceRange == PriceMin .. PriceMax

\* using Quantity = uint64_t
QuantityRange == 0 .. (Word - 1)

\* conversion of an integer to the unsigned word (modular)
ToUnsigned(x) == x % Word

\* conversion of an integer to the signed word (two's complement)
ToSigned(x) == LET u == x % Word IN IF u > PriceMax THEN u - Word ELSE u

\* C++ integer division truncates toward zero
CDiv(a, b) ==
    IF (a >= 0) = (b > 0)
    THEN (IF a >= 0 THEN a ELSE 0 - a) \div (IF b > 0 THEN b ELSE 0 - b)
    ELSE 0 - ((IF a >= 0 THEN a ELSE 0 - a) \div (IF b > 0 THEN b ELSE 0 - b))

Min(a, b) == IF a <= b THEN a ELSE b

---------------------------------------------------------------------------
(* Associative containers (std::unordered_map) as functions *)

EmptyMap == [k \in {} |-> 0]

MapPut(m, k, v) == [x \in (DOMAIN m) \cup {k} |-> IF x = k THEN v ELSE m[x]]

\* m[k] on an unordered_map: inserts a value-initialised element when absent
MapTouch(m, k, dflt) == IF k \in DOMAIN m THEN m ELSE MapPut(m, k, dflt)

---------------------------------------------------------------------------
(* Sorting: std::sort and thrust::sort are not stable, so every arrangement
   of the sequence that is ordered under the comparator is a possible
   outcome. *)

Perms(n) == { p \in [1..n -> 1..n] : \A i, j \in 1..n : i # j => p[i] # p[j] }

\* less[i, j] is the comparator applied to seq[i] and seq[j]
SortOutcomes(seq, less) ==
    { [i \in 1..Len(seq) |-> seq[p[i]]] : p \in
        { q \in Perms(Len(seq)) :
            \A i \in 1..(Len(seq) - 1) : ~less[q[i + 1], q[i]] } }

---------------------------------------------------------------------------
(* State *)

VARIABLES
    now,                    \* steady_clock::now(), in nanoseconds
    ad_slots,               \* SlotID -> AdSlot
    bid_books,              \* SlotID -> vector<Order>
    ask_books,              \* SlotID -> vector<Order>
    amm_pools,              \* SlotID -> AdMM_Pool
    commit_phase_orders,    \* SlotID -> vector<Order>
    reveal_deadlines,       \* SlotID -> time_point
    total_orders_processed,
    total_matches,
    fills,                  \* log of the executeFill calls of the last operation
    filled,                 \* SlotID -> quantity passed to executeFill so far
    call,                   \* the last operation and the slot it named
    ret,                    \* the bool the last operation returned
    batch_result,           \* the BatchAuctionResult it returned
    current_price,          \* the Price it returned
    halted,                 \* the process was stopped by a hardware trap
    next_order_id           \* caller side: the next unused OrderID

vars == << now, ad_slots, bid_books, ask_books, amm_pools, commit_phase_orders,
           reveal_deadlines, total_orders_processed, total_matches, fills,
           filled, call, ret, batch_result, current_price, halted,
           next_order_id >>

SlotIDs == {1, 2}
Targetings == {1, 2}
NoOrders == << >>

\* of ret, batch_result and current_price, those the last operation did not
\* return hold FALSE, NoResult and 0
NoResult ==
    [matches |-> << >>, clearing_prices |-> << >>,
     clearing_quantities |-> << >>, total_matches |-> 0]

Init ==
    /\ now = 0
    /\ ad_slots = EmptyMap
    /\ bid_books = EmptyMap
    /\ ask_books = EmptyMap
    /\ amm_pools = EmptyMap
    /\ commit_phase_orders = EmptyMap
    /\ reveal_deadlines = EmptyMap
    /\ total_orders_processed = 0
    /\ total_matches = 0
    /\ fills = << >>
    /\ filled = [s \in SlotIDs |-> 0]
    /\ call = [op |-> "init", slot_id |-> 0]
    /\ ret = FALSE
    /\ batch_result = NoResult
    /\ current_price = 0
    /\ halted = FALSE
    /\ next_order_id = 1

---------------------------------------------------------------------------
(* The clock *)

Tick(d, limit) ==
    /\ ~halted
    /\ now + d <= limit
    /\ now' = now + d
    /\ UNCHANGED << ad_slots, bid_books, ask_books, amm_pools,
                    commit_phase_orders, reveal_deadlines,
                    total_orders_processed, total_matches, fills, filled,
                    call, ret, batch_result, current_price, halted,
                    next_order_id >>

---------------------------------------------------------------------------
(* registerAdSlot *)

SlotExists(slot_id) == slot_id \in DOMAIN ad_slots

\* mutant of registerAdSlot: the duplicate check is missing
RegisterAdSlot_Overwrite(slot) ==
    /\ ~halted
    /\ call' = [op |-> "registerAdSlot", slot_id |-> slot.slot_id]
    /\ batch_result' = NoResult
    /\ current_price' = 0
    /\ fills' = << >>
    /\ ad_slots' = MapPut(ad_slots, slot.slot_id, slot)
    /\ bid_books' = MapPut(bid_books, slot.slot_id, NoOrders)
    /\ ask_books' = MapPut(ask_books, slot.slot_id, NoOrders)
    /\ ret' = TRUE
    /\ UNCHANGED << now, amm_pools, commit_phase_orders, reveal_deadlines,
                    total_orders_processed, total_matches, filled, halted,
                    next_order_id >>

RegisterAdSlot(slot) ==
    /\ ~halted
    /\ call' = [op |-> "registerAdSlot", slot_id |-> slot.slot_id]
    /\ batch_result' = NoResult
    /\ current_price' = 0
    /\ fills' = << >>
    /\ IF SlotExists(slot.slot_id)
       THEN /\ ret' = FALSE
            /\ UNCHANGED << ad_slots, bid_books, ask_books >>
       ELSE /\ ad_slots' = MapPut(ad_slots, slot.slot_id, slot)
            /\ bid_books' = MapPut(bid_books, slot.slot_id, NoOrders)
            /\ ask_books' = MapPut(ask_books, slot.slot_id, NoOrders)
            /\ ret' = TRUE
    /\ UNCHANGED << now, amm_pools, commit_phase_orders, reveal_deadlines,
                    total_orders_processed, total_matches, filled, halted,
                    next_order_id >>

---------------------------------------------------------------------------
(* Orders and the order books *)

\* mutant of addOrder: the targeting check is missing
AddOrderValid_NoTargeting(order) ==
    /\ SlotExists(order.slot_id)
    /\ ~(now > ad_slots[order.slot_id].end_time)

\* addOrder: the checks made before an order is routed
AddOrderValid(order) ==
    /\ SlotExists(order.slot_id)
    /\ order.targeting_hash = ad_slots[order.slot_id].targeting_hash
    /\ ~(now > ad_slots[order.slot_id].end_time)

\* comparator of the bid book's std::sort (price descending)
BidLess(a, b) == a.limit_price > b.limit_price

\* comparator of the ask book's std::sort (price ascending)
AskLess(a, b) == a.limit_price < b.limit_price

\* executeFill records nothing in the engine; the model logs the call
executeFill(bid_id, ask_id, price, quantity) ==
    [bid_id |-> bid_id, ask_id |-> ask_id, price |-> price, quantity |-> quantity]

\* the book after `if (quantity == fill_qty) erase(begin()) else [0].quantity -= fill_qty`
RemoveOrReduce(book, fill_qty) ==
    IF Head(book).quantity = fill_qty
    THEN Tail(book)
    ELSE [book EXCEPT ![1].quantity = ToUnsigned(@ - fill_qty)]

\* mutant of tryImmedateMatch: the loop is left after its first fill
tryImmedateMatch_OneFill(bids, asks, fs) ==
    IF bids = << >> \/ asks = << >> THEN [bids |-> bids, asks |-> asks, fills |-> fs]
    ELSE IF Head(bids).limit_price < Head(asks).limit_price
    THEN [bids |-> bids, asks |-> asks, fills |-> fs]
    ELSE LET fill_qty == Min(Head(bids).quantity, Head(asks).quantity)
         IN  [bids |-> RemoveOrReduce(bids, fill_qty),
              asks |-> RemoveOrReduce(asks, fill_qty),
              fills |-> Append(fs, [fill |-> executeFill(Head(bids).order_id,
                                                         Head(asks).order_id,
                                                         Head(asks).limit_price,
                                                         fill_qty),
                                    bid |-> Head(bids), ask |-> Head(asks)])]

\* tryImmedateMatch: the loop, from the books `bids` and `asks`, with the
\* fills made so far in `fs`; each entry of the log holds the arguments of
\* the executeFill call and the two orders it paired, as they were then
RECURSIVE tryImmedateMatch(_, _, _)
tryImmedateMatch(bids, asks, fs) ==
    IF bids = << >> \/ asks = << >>
    THEN [bids |-> bids, asks |-> asks, fills |-> fs]
    ELSE LET best_bid == Head(bids)
             best_ask == Head(asks)
             fill_qty == Min(best_bid.quantity, best_ask.quantity)
             fill_price == best_ask.limit_price
         IN  IF best_bid.limit_price >= best_ask.limit_price
             THEN tryImmedateMatch(
                      RemoveOrReduce(bids, fill_qty),
                      RemoveOrReduce(asks, fill_qty),
                      Append(fs, [fill |-> executeFill(best_bid.order_id,
                                                       best_ask.order_id,
                                                       fill_price, fill_qty),
                                  bid |-> best_bid, ask |-> best_ask]))
             ELSE [bids |-> bids, asks |-> asks, fills |-> fs]

RECURSIVE SumQuantity(_)
SumQuantity(fs) ==
    IF fs = << >> THEN 0 ELSE Head(fs).fill.quantity + SumQuantity(Tail(fs))

\* addLimitOrder, push_back and std::sort: the books the insertion can leave
BookInsert(bids, asks, order) ==
    IF order.is_buy
    THEN LET pushed == Append(bids, order)
         IN  { [bids |-> sorted, asks |-> asks] :
               sorted \in SortOutcomes(pushed,
                   [i, j \in 1..Len(pushed) |-> BidLess(pushed[i], pushed[j])]) }
    ELSE LET pushed == Append(asks, order)
         IN  { [bids |-> bids, asks |-> sorted] :
               sorted \in SortOutcomes(pushed,
                   [i, j \in 1..Len(pushed) |-> AskLess(pushed[i], pushed[j])]) }

\* addLimitOrder, for LIMIT and MARKET orders
AddLimitOrder(order) ==
    LET s == order.slot_id IN
    \E inserted \in BookInsert(bid_books[s], ask_books[s], order) :
        LET bids == inserted.bids
            asks == inserted.asks
            m == IF order.type = "MARKET"
                 THEN tryImmedateMatch(bids, asks, << >>)
                 ELSE [bids |-> bids, asks |-> asks, fills |-> << >>]
        IN  /\ bid_books' = [bid_books EXCEPT ![s] = m.bids]
            /\ ask_books' = [ask_books EXCEPT ![s] = m.asks]
            /\ total_orders_processed' = total_orders_processed + 1
            /\ total_matches' = total_matches + Len(m.fills)
            /\ fills' = m.fills
            /\ filled' = [filled EXCEPT ![s] = @ + SumQuantity(m.fills)]
            /\ ret' = TRUE
            /\ UNCHANGED << ad_slots, amm_pools, commit_phase_orders,
                            reveal_deadlines, halted >>

\* addCommitRevealOrder
AddCommitRevealOrder(order) ==
    /\ commit_phase_orders' =
           MapPut(commit_phase_orders, order.slot_id,
                  Append(MapTouch(commit_phase_orders, order.slot_id,
                                  NoOrders)[order.slot_id], order))
    /\ ret' = TRUE
    /\ fills' = << >>
    /\ UNCHANGED << ad_slots, bid_books, ask_books, amm_pools, reveal_deadlines,
                    total_orders_processed, total_matches, filled, halted >>

\* executeFlashCover: a stub that accepts every order
ExecuteFlashCover(order) ==
    /\ ret' = TRUE
    /\ fills' = << >>
    /\ UNCHANGED << ad_slots, bid_books, ask_books, amm_pools,
                    commit_phase_orders, reveal_deadlines,
                    total_orders_processed, total_matches, filled, halted >>

\* addOrder returning false before any routing
RejectOrder ==
    /\ ret' = FALSE
    /\ fills' = << >>
    /\ UNCHANGED << ad_slots, bid_books, ask_books, amm_pools,
                    commit_phase_orders, reveal_deadlines,
                    total_orders_processed, total_matches, filled, halted >>

---------------------------------------------------------------------------
(* Arithmetic with undefined behaviour.  An operation whose behaviour is
   undefined (division by zero, signed overflow) has the outcomes the builds
   of the program produce: a hardware or -ftrapv trap, or the result the
   instruction leaves (zero for a division by zero, the wrapped word for an
   overflow). *)

\* an outcome is a trap, or the value computed
Trap == << >>
Val(v) == << v >>
IsTrap(o) == o = Trap
ValueOf(o) == o[1]

\* the values among the outcomes
Values(outcomes) == { ValueOf(o) : o \in { x \in outcomes : ~IsTrap(x) } }

\* the outcomes of the next step f, a function from the value of the step
\* before to outcomes; a trap stays a trap
Then(outcomes, f) ==
    UNION { IF IsTrap(o) THEN {Trap} ELSE f[ValueOf(o)] : o \in outcomes }

InPrice(x) == PriceMin <= x /\ x <= PriceMax

\* uint64_t / uint64_t
UDiv(a, b) == IF b = 0 THEN {Trap, Val(0)} ELSE {Val(a \div b)}

\* int64_t / int64_t
SDiv(a, b) ==
    IF b = 0 THEN {Trap, Val(0)}
    ELSE IF ~InPrice(CDiv(a, b)) THEN {Trap, Val(ToSigned(CDiv(a, b)))}
    ELSE {Val(CDiv(a, b))}

\* int64_t + int64_t
SAdd(a, b) == IF InPrice(a + b) THEN {Val(a + b)} ELSE {Trap, Val(ToSigned(a + b))}

\* int64_t - int64_t
SSub(a, b) == IF InPrice(a - b) THEN {Val(a - b)} ELSE {Trap, Val(ToSigned(a - b))}

\* int64_t * int64_t
SMul(a, b) == IF InPrice(a * b) THEN {Val(a * b)} ELSE {Trap, Val(ToSigned(a * b))}

---------------------------------------------------------------------------
(* AdMM pools *)

\* a value-initialised AdMM_Pool, as amm_pools[slot_id] inserts it
ZeroPool == [slot_id |-> 0, reserve_ausd |-> 0, reserve_supply |-> 0, last_price |-> 0]

\* AdMM_Pool::getSwapPrice: the set of its outcomes
getSwapPrice(pool, quantity_in, buy_ausd) ==
    IF pool.reserve_ausd = 0 \/ pool.reserve_supply = 0 THEN {Val(0)}
    ELSE
    LET \* Price k = reserve_ausd * reserve_supply, multiplied as uint64_t
        k == ToSigned(ToUnsigned(pool.reserve_ausd) * pool.reserve_supply)
    IN  IF buy_ausd
        THEN LET new_supply == ToUnsigned(pool.reserve_supply + quantity_in)
                 new_ausd == UDiv(ToUnsigned(k), new_supply)
             IN  Then(new_ausd, [v \in Values(new_ausd) |->
                                   SSub(pool.reserve_ausd, ToSigned(v))])
        ELSE LET new_ausd == ToSigned(ToUnsigned(pool.reserve_ausd) + quantity_in)
                 new_supply == SDiv(k, new_ausd)
             IN  Then(new_supply, [v \in Values(new_supply) |->
                      {Val(ToSigned(pool.reserve_supply - ToUnsigned(v)))}])

\* pool.last_price = pool.reserve_ausd / pool.reserve_supply, divided as uint64_t
WithLastPrice(pool) ==
    LET price == UDiv(ToUnsigned(pool.reserve_ausd), pool.reserve_supply)
    IN  Then(price, [v \in Values(price) |->
                       {Val([pool EXCEPT !.last_price = ToSigned(v)])}])

\* the last_price statement after the reserve mutations
UpdateLastPrice(pools) ==
    Then(pools, [v \in Values(pools) |-> WithLastPrice(v)])

\* executeAMMSwap, the reserve mutations after a positive quote
SwapReserves(pool, order, swap_amount) ==
    IF order.is_buy
    THEN {Val([pool EXCEPT
                 !.reserve_ausd = ToSigned(ToUnsigned(@) + order.quantity),
                 !.reserve_supply = ToUnsigned(@ - swap_amount)])}
    ELSE LET ausd == SSub(pool.reserve_ausd, swap_amount)
         IN  Then(ausd, [v \in Values(ausd) |->
                  {Val([pool EXCEPT
                          !.reserve_ausd = v,
                          !.reserve_supply = ToUnsigned(@ + order.quantity)])}])

\* executeAMMSwap
ExecuteAMMSwap(order) ==
    LET s == order.slot_id
        touched == MapTouch(amm_pools, s, ZeroPool)
        pool == touched[s]
    IN  /\ fills' = << >>
        /\ \E quote \in getSwapPrice(pool, order.quantity, order.is_buy) :
             IF IsTrap(quote)
             THEN /\ halted' = TRUE
                  /\ amm_pools' = touched
                  /\ UNCHANGED ret
             ELSE IF ValueOf(quote) <= 0
             THEN /\ ret' = FALSE
                  /\ amm_pools' = touched
                  /\ UNCHANGED halted
             ELSE \E done \in UpdateLastPrice(SwapReserves(pool, order, ValueOf(quote))) :
                    IF IsTrap(done)
                    THEN /\ halted' = TRUE
                         /\ amm_pools' = touched
                         /\ UNCHANGED ret
                    ELSE /\ amm_pools' = MapPut(amm_pools, s, ValueOf(done))
                         /\ ret' = TRUE
                         /\ UNCHANGED halted
        /\ UNCHANGED << ad_slots, bid_books, ask_books, commit_phase_orders,
                        reveal_deadlines, total_orders_processed, total_matches,
                        filled >>

\* addLiquidity
AddLiquidity(slot_id, ausd_amount, slot_amount) ==
    LET touched == MapTouch(amm_pools, slot_id, ZeroPool)
        pool == touched[slot_id]
        ausd == SAdd(pool.reserve_ausd, ausd_amount)
        added == Then(ausd, [v \in Values(ausd) |->
                     {Val([pool EXCEPT
                             !.reserve_ausd = v,
                             !.reserve_supply = ToUnsigned(@ + slot_amount)])}])
    IN  /\ ~halted
        /\ call' = [op |-> "addLiquidity", slot_id |-> slot_id]
        /\ batch_result' = NoResult
        /\ current_price' = 0
        /\ fills' = << >>
        /\ \E done \in UpdateLastPrice(added) :
             IF IsTrap(done)
             THEN /\ halted' = TRUE
                  /\ amm_pools' = touched
                  /\ UNCHANGED ret
             ELSE /\ amm_pools' = MapPut(amm_pools, slot_id, ValueOf(done))
                  /\ ret' = TRUE
                  /\ UNCHANGED halted
        /\ UNCHANGED << now, ad_slots, bid_books, ask_books, commit_phase_orders,
                        reveal_deadlines, total_orders_processed, total_matches,
                        filled, next_order_id >>

---------------------------------------------------------------------------
(* addOrder *)

AddOrder(order) ==
    /\ ~halted
    /\ next_order_id <= MaxOrders
    /\ order.order_id = next_order_id
    /\ next_order_id' = next_order_id + 1
    /\ call' = [op |-> "addOrder", slot_id |-> order.slot_id]
    /\ batch_result' = NoResult
    /\ current_price' = 0
    /\ UNCHANGED now
    /\ IF ~AddOrderValid(order) THEN RejectOrder
       ELSE CASE order.type \in {"LIMIT", "MARKET"} -> AddLimitOrder(order)
              [] order.type = "COMMIT_REVEAL" -> AddCommitRevealOrder(order)
              [] order.type = "AMM_SWAP" -> ExecuteAMMSwap(order)
              [] order.type = "FLASH_COVER" -> ExecuteFlashCover(order)
              [] OTHER -> RejectOrder

---------------------------------------------------------------------------
(* runBatchAuction *)

\* Order::priority: (uint64_t(limit_price) << 32) | created in nanoseconds.
\* For 0 <= limit_price < 2^32 and 0 <= created < 2^32, the values of the
\* model, the high half of the word is limit_price and the low half created.
priority(o) == [hi |-> o.limit_price, lo |-> o.created]

PriorityLess(a, b) ==
    \/ priority(a).hi < priority(b).hi
    \/ priority(a).hi = priority(b).hi /\ priority(a).lo < priority(b).lo

\* comparator of thrust::sort over the bids: a.priority() > b.priority()
BatchBidLess(a, b) == PriorityLess(b, a)

\* comparator of thrust::sort over the asks: a.priority() < b.priority()
BatchAskLess(a, b) == PriorityLess(a, b)

\* the condition under which matchOrdersGPU pairs a bid with an ask
Crosses(bid, ask) ==
    /\ bid.limit_price >= ask.limit_price
    /\ bid.targeting_hash = ask.targeting_hash

\* matchOrdersGPU, inner loop: the first ask from index j on that the bid crosses
RECURSIVE FirstAsk(_, _, _)
FirstAsk(orders, bid, j) ==
    IF j > Len(orders) THEN << >>
    ELSE IF Crosses(bid, orders[j]) THEN << <<bid.order_id, orders[j].order_id>> >>
    ELSE FirstAsk(orders, bid, j + 1)

\* matchOrdersGPU, outer loop from bid index i on
RECURSIVE MatchFrom(_, _, _)
MatchFrom(orders, bid_count, i) ==
    IF i > bid_count THEN << >>
    ELSE FirstAsk(orders, orders[i], bid_count + 1) \o MatchFrom(orders, bid_count, i + 1)

matchOrdersGPU(orders, bid_count) == MatchFrom(orders, bid_count, 1)

\* calculateClearingPrices: one placeholder 0 per match
calculateClearingPrices(matches) == [i \in 1..Len(matches) |-> 0]

\* a member that `BatchAuctionResult result;` leaves uninitialised
Indeterminate == {0, 1, Word - 1}

\* the results runBatchAuction can return for the books `bids` and `asks`
BatchResults(bids, asks) ==
    IF bids = << >> \/ asks = << >>
    THEN { [matches |-> << >>, clearing_prices |-> << >>,
            clearing_quantities |-> << >>, total_matches |-> n] :
           n \in Indeterminate }
    ELSE { LET matches == matchOrdersGPU(sb \o sa, Len(bids))
           IN  [matches |-> matches,
                clearing_prices |-> IF matches # << >>
                                    THEN calculateClearingPrices(matches)
                                    ELSE << >>,
                clearing_quantities |-> << >>,
                total_matches |-> Len(matches)] :
           sb \in SortOutcomes(bids,
                     [i, j \in 1..Len(bids) |-> BatchBidLess(bids[i], bids[j])]),
           sa \in SortOutcomes(asks,
                     [i, j \in 1..Len(asks) |-> BatchAskLess(asks[i], asks[j])]) }

RunBatchAuction(slot_id) ==
    LET bids == MapTouch(bid_books, slot_id, NoOrders)
        asks == MapTouch(ask_books, slot_id, NoOrders)
    IN  /\ ~halted
        /\ total_matches < MaxMatches
        /\ call' = [op |-> "runBatchAuction", slot_id |-> slot_id]
        /\ ret' = FALSE
        /\ current_price' = 0
        /\ fills' = << >>
        /\ bid_books' = bids
        /\ ask_books' = asks
        /\ \E result \in BatchResults(bids[slot_id], asks[slot_id]) :
             /\ batch_result' = result
             /\ total_matches' =
                    IF bids[slot_id] = << >> \/ asks[slot_id] = << >>
                    THEN total_matches
                    ELSE total_matches + result.total_matches
        /\ UNCHANGED << now, ad_slots, amm_pools, commit_phase_orders,
                        reveal_deadlines, total_orders_processed, filled, halted,
                        next_order_id >>

---------------------------------------------------------------------------
(* Commit-reveal *)

\* std::to_string of a non-negative integer: the character codes of its
\* decimal digits ('0' is 48)
RECURSIVE to_string(_)
to_string(n) ==
    IF n < 10 THEN << 48 + n >> ELSE to_string(n \div 10) \o << 48 + (n % 10) >>

\* the injected hash function: collision free on the strings of the model
HashFn(data) == << "h", data >>

\* mutant of startCommitPhase: the committed orders are kept
StartCommitPhase_KeepOrders(slot_id, duration_ms) ==
    /\ ~halted
    /\ call' = [op |-> "startCommitPhase", slot_id |-> slot_id]
    /\ batch_result' = NoResult
    /\ current_price' = 0
    /\ fills' = << >>
    /\ reveal_deadlines' = MapPut(reveal_deadlines, slot_id, now + duration_ms * NsPerMs)
    /\ commit_phase_orders' = MapTouch(commit_phase_orders, slot_id, NoOrders)
    /\ ret' = TRUE
    /\ UNCHANGED << now, ad_slots, bid_books, ask_books, amm_pools,
                    total_orders_processed, total_matches, filled, halted,
                    next_order_id >>

\* startCommitPhase
StartCommitPhase(slot_id, duration_ms) ==
    /\ ~halted
    /\ call' = [op |-> "startCommitPhase", slot_id |-> slot_id]
    /\ batch_result' = NoResult
    /\ current_price' = 0
    /\ fills' = << >>
    /\ reveal_deadlines' = MapPut(reveal_deadlines, slot_id, now + duration_ms * NsPerMs)
    /\ commit_phase_orders' = MapPut(commit_phase_orders, slot_id, NoOrders)
    /\ ret' = TRUE
    /\ UNCHANGED << now, ad_slots, bid_books, ask_books, amm_pools,
                    total_orders_processed, total_matches, filled, halted,
                    next_order_id >>

\* std::find_if over the committed orders: the index of the first order with
\* this id, 0 when there is none
RECURSIVE FindOrder(_, _, _)
FindOrder(orders, order_id, i) ==
    IF i > Len(orders) THEN 0
    ELSE IF orders[i].order_id = order_id THEN i
    ELSE FindOrder(orders, order_id, i + 1)

\* revealBid, the deadline check
RevealOpen(slot_id) ==
    /\ slot_id \in DOMAIN reveal_deadlines
    /\ ~(now > reveal_deadlines[slot_id])

RevealBid(slot_id, order_id, revealed_price, reveal_nonce) ==
    /\ ~halted
    /\ call' = [op |-> "revealBid", slot_id |-> slot_id]
    /\ batch_result' = NoResult
    /\ current_price' = 0
    /\ fills' = << >>
    /\ IF ~RevealOpen(slot_id)
       THEN /\ ret' = FALSE
            /\ UNCHANGED commit_phase_orders
       ELSE LET touched == MapTouch(commit_phase_orders, slot_id, NoOrders)
                orders == touched[slot_id]
                i == FindOrder(orders, order_id, 1)
                \* built and never compared with the order's commit_hash
                reveal_data == to_string(revealed_price) \o reveal_nonce
            IN  IF i = 0
                THEN /\ ret' = FALSE
                     /\ commit_phase_orders' = touched
                ELSE /\ commit_phase_orders' =
                            [touched EXCEPT ![slot_id][i].revealed = TRUE,
                                            ![slot_id][i].revealed_price = revealed_price]
                     /\ ret' = TRUE
    /\ UNCHANGED << now, ad_slots, bid_books, ask_books, amm_pools,
                    reveal_deadlines, total_orders_processed, total_matches,
                    filled, halted, next_order_id >>

---------------------------------------------------------------------------
(* Time-decay pricing *)

\* duration_cast<milliseconds>(d).count() of a duration of d nanoseconds
ToMilliseconds(d) == CDiv(d, NsPerMs)

\* AdSlot::getCurrentPrice read at time t: the set of its outcomes
getCurrentPrice(slot, t) ==
    IF t > slot.end_time \/ ~slot.active THEN {Val(0)}
    ELSE IF t < slot.start_time THEN {Val(slot.floor_cpm)}
    ELSE
    LET time_remaining == ToMilliseconds(slot.end_time - t)
        total_window == ToMilliseconds(slot.end_time - slot.start_time)
        premium == CDiv(slot.floor_cpm, 2)
        product == SMul(premium, time_remaining)
        share == Then(product, [v \in Values(product) |-> SDiv(v, total_window)])
    IN  IF total_window <= 0 THEN {Val(slot.floor_cpm)}
        ELSE Then(share, [v \in Values(share) |-> SAdd(slot.floor_cpm, v)])

\* a caller reading current_price of a registered slot
GetCurrentPrice(slot_id) ==
    /\ ~halted
    /\ SlotExists(slot_id)
    /\ call' = [op |-> "getCurrentPrice", slot_id |-> slot_id]
    /\ ret' = FALSE
    /\ batch_result' = NoResult
    /\ fills' = << >>
    /\ \E price \in getCurrentPrice(ad_slots[slot_id], now) :
         IF IsTrap(price)
         THEN /\ halted' = TRUE
              /\ UNCHANGED current_price
         ELSE /\ current_price' = ValueOf(price)
              /\ UNCHANGED halted
    /\ UNCHANGED << now, ad_slots, bid_books, ask_books, amm_pools,
                    commit_phase_orders, reveal_deadlines, total_orders_processed,
                    total_matches, filled, next_order_id >>

---------------------------------------------------------------------------
(* Inputs *)

\* an AdSlot as a caller passes it to registerAdSlot
AdSlot(slot_id, targeting_hash, start_time, end_time, max_impressions, floor_cpm, active) ==
    [slot_id |-> slot_id, targeting_hash |-> targeting_hash,
     start_time |-> start_time, end_time |-> end_time,
     max_impressions |-> max_impressions, delivered |-> 0,
     floor_cpm |-> floor_cpm, active |-> active]

\* an Order as a caller passes it to addOrder, under a fresh id
Order(slot_id, type, is_buy, limit_price, quantity, created, expires, targeting_hash, commit_hash) ==
    [order_id |-> next_order_id, slot_id |-> slot_id, type |-> type,
     is_buy |-> is_buy, limit_price |-> limit_price, quantity |-> quantity,
     created |-> created, expires |-> expires, targeting_hash |-> targeting_hash,
     commit_hash |-> commit_hash, revealed |-> FALSE, revealed_price |-> 0]

NoHash == << >>

\* the caller stamps an order when it builds it, now or one tick before it
\* hands the order to the engine
CreatedTimes == { t \in {now - 1, now} : t >= 0 }

---------------------------------------------------------------------------
(* The order books: registerAdSlot, addOrder of LIMIT and MARKET orders,
   runBatchAuction *)

BookSlotIDs == {1}

BookSlots ==
    { AdSlot(s, 1, 0, MaxTime, m, 0, TRUE) : s \in BookSlotIDs, m \in 1..MaxQty }

BookOrders ==
    { Order(s, ty, b, p, q, c, MaxTime + 1, th, NoHash) :
        s \in BookSlotIDs, ty \in {"LIMIT", "MARKET"}, b \in BOOLEAN,
        p \in 1..MaxPrice, q \in 1..MaxQty, c \in CreatedTimes, th \in Targetings }

TickBook == Tick(1, MaxTime)
RegisterBook == \E slot \in BookSlots : RegisterAdSlot(slot)
AddOrderBook == \E order \in BookOrders : AddOrder(order)
RunBatchBook == \E s \in BookSlotIDs : RunBatchAuction(s)

Next == TickBook \/ RegisterBook \/ AddOrderBook \/ RunBatchBook

Spec == Init /\ [][Next]_vars

---------------------------------------------------------------------------
(* Properties of the order books *)

Range(seq) == { seq[i] : i \in 1..Len(seq) }

RestingOrders(s) ==
    (IF s \in DOMAIN bid_books THEN Range(bid_books[s]) ELSE {})
    \cup (IF s \in DOMAIN ask_books THEN Range(ask_books[s]) ELSE {})

\* an operation other than a clock tick is taking place in this step
OperationStep == now' = now

\* C1: no over-delivery: for every registered slot, delivered and the
\* quantity filled against the slot never exceed max_impressions (a fill that
\* would exceed it is truncated to the remaining capacity).
C1_NoOverDelivery ==
    \A s \in DOMAIN ad_slots :
        /\ ad_slots[s].delivered <= ad_slots[s].max_impressions
        /\ filled[s] <= ad_slots[s].max_impressions

\* C2: conservation: for every slot, the quantities of the fills produced
\* for it add up to the increase of its delivered counter since registration
\* (slots are registered with delivered = 0).
C2_Conservation ==
    \A s \in DOMAIN ad_slots : filled[s] = ad_slots[s].delivered

\* C3: book ordering: each bid book is sorted by limit_price descending, each
\* ask book by limit_price ascending, and among equal prices the order
\* created earlier comes first.
C3_BookOrdering ==
    /\ \A s \in DOMAIN bid_books : \A i, j \in 1..Len(bid_books[s]) :
          i < j => \/ bid_books[s][i].limit_price > bid_books[s][j].limit_price
                   \/ /\ bid_books[s][i].limit_price = bid_books[s][j].limit_price
                      /\ bid_books[s][i].created <= bid_books[s][j].created
    /\ \A s \in DOMAIN ask_books : \A i, j \in 1..Len(ask_books[s]) :
          i < j => \/ ask_books[s][i].limit_price < ask_books[s][j].limit_price
                   \/ /\ ask_books[s][i].limit_price = ask_books[s][j].limit_price
                      /\ ask_books[s][i].created <= ask_books[s][j].created

\* the orders of book `book` with id `id`
WithId(book, id) == { o \in Range(book) : o.order_id = id }

\* C7: targeting: every fill of the immediate matcher and every pair of a
\* batch result pairs a bid and an ask of equal targeting_hash, and every
\* order resting in a slot's book has the slot's targeting_hash.
C7_Targeting ==
    /\ \A s \in DOMAIN bid_books \cup DOMAIN ask_books : \A o \in RestingOrders(s) :
          s \in DOMAIN ad_slots /\ o.targeting_hash = ad_slots[s].targeting_hash
    /\ \A i \in 1..Len(fills) : fills[i].bid.targeting_hash = fills[i].ask.targeting_hash
    /\ call.op = "runBatchAuction" =>
          \A i \in 1..Len(batch_result.matches) :
              \A b \in WithId(bid_books[call.slot_id], batch_result.matches[i][1]) :
              \A a \in WithId(ask_books[call.slot_id], batch_result.matches[i][2]) :
                  b.targeting_hash = a.targeting_hash

\* C7 witness: an immediate fill has just been made while another order rests
C7_Witness ==
    /\ fills # << >>
    /\ \E s \in DOMAIN ad_slots : RestingOrders(s) # {}

\* C10: registerAdSlot succeeds for a slot_id not yet present and fails for
\* one already present, and then leaves the slot record and the slot's two
\* books as they were.
C10_RegisterSlot ==
    [][ (OperationStep /\ call'.op = "registerAdSlot") =>
          LET s == call'.slot_id IN
          IF s \in DOMAIN ad_slots
          THEN /\ ret' = FALSE
               /\ ad_slots'[s] = ad_slots[s]
               /\ bid_books'[s] = bid_books[s]
               /\ ask_books'[s] = ask_books[s]
          ELSE /\ ret' = TRUE
               /\ s \in DOMAIN ad_slots' ]_vars

\* C10 witness: a duplicate registration has just failed on a slot whose
\* book holds an order
C10_Witness ==
    /\ call.op = "registerAdSlot"
    /\ ret = FALSE
    /\ RestingOrders(call.slot_id) # {}

---------------------------------------------------------------------------
(* Validation in addOrder: registerAdSlot and addOrder of every order type,
   with orders of quantity 0, orders already expired, orders of another
   targeting and orders for a slot that is unknown or past its end_time *)

OrderTypes == {"LIMIT", "MARKET", "COMMIT_REVEAL", "AMM_SWAP", "FLASH_COVER"}

ValidateSlots == { AdSlot(1, 1, 0, e, 1, 0, TRUE) : e \in {0, MaxTime} }

ValidateOrders ==
    { Order(s, ty, TRUE, 1, q, now, e, th, NoHash) :
        s \in SlotIDs, ty \in OrderTypes, q \in {0, 1},
        e \in {0, MaxTime + 1}, th \in Targetings }

TickValidate == Tick(1, MaxTime)
RegisterValidate == \E slot \in ValidateSlots : RegisterAdSlot(slot)
AddOrderValidate == \E order \in ValidateOrders : AddOrder(order)

NextValidate == TickValidate \/ RegisterValidate \/ AddOrderValidate

SpecValidate == Init /\ [][NextValidate]_vars

\* what the pre-routing validation is to reject
Invalid(order) ==
    \/ order.slot_id \notin DOMAIN ad_slots
    \/ now > ad_slots[order.slot_id].end_time
    \/ order.targeting_hash # ad_slots[order.slot_id].targeting_hash
    \/ order.quantity = 0
    \/ order.expires <= now

\* C9: pre-routing validation: addOrder rejects an order of any type when
\* the slot is unknown or expired, the targeting_hash differs from the
\* slot's, the quantity is 0 or expires <= now.
C9_PreRoutingValidation ==
    [][ \A order \in ValidateOrders :
          (AddOrder(order) /\ Invalid(order)) => ret' = FALSE ]_vars

---------------------------------------------------------------------------
(* Commit-reveal: registerAdSlot, addOrder of COMMIT_REVEAL orders,
   startCommitPhase and revealBid; the clock advances by milliseconds *)

\* nonces, as strings of character codes
Nonces == { << 110 >>, << 111 >> }

\* the commit_hash a bidder computes for a price and a nonce
CommitHash(price, nonce) == HashFn(to_string(price) \o nonce)

CommitSlots ==
    { AdSlot(s, 1, 0, MaxTime * NsPerMs, 1, 0, TRUE) : s \in SlotIDs }

CommitOrders ==
    { Order(s, "COMMIT_REVEAL", TRUE, MaxPrice, 1, now, (MaxTime + 1) * NsPerMs, 1,
            CommitHash(MaxPrice, << 110 >>)) : s \in SlotIDs }

Durations == {0, 1}

TickCommit == Tick(NsPerMs, MaxTime * NsPerMs)
RegisterCommit == \E slot \in CommitSlots : RegisterAdSlot(slot)
AddOrderCommit == \E order \in CommitOrders : AddOrder(order)
StartCommit == \E s \in SlotIDs, d \in Durations : StartCommitPhase(s, d)
Reveal ==
    \E s \in SlotIDs, id \in 1..MaxOrders, p \in 1..MaxPrice, n \in Nonces :
        RevealBid(s, id, p, n)

NextCommit == TickCommit \/ RegisterCommit \/ AddOrderCommit \/ StartCommit \/ Reveal

SpecCommit == Init /\ [][NextCommit]_vars

\* an order with this id is committed in the slot
Committed(s, id) ==
    s \in DOMAIN commit_phase_orders /\ FindOrder(commit_phase_orders[s], id, 1) # 0

\* C5: commit-reveal integrity: for an order committed in a slot, revealBid
\* succeeds if and only if hash(price || nonce) is the order's commit_hash
\* and a deadline is recorded for the slot with now <= deadline; a failed
\* reveal leaves the committed orders as they were.
C5_CommitRevealIntegrity ==
    [][ \A s \in SlotIDs, id \in 1..MaxOrders, p \in 1..MaxPrice, n \in Nonces :
          (RevealBid(s, id, p, n) /\ Committed(s, id)) =>
             LET o == commit_phase_orders[s][FindOrder(commit_phase_orders[s], id, 1)]
             IN  /\ (ret' = TRUE) <=>
                        /\ CommitHash(p, n) = o.commit_hash
                        /\ s \in DOMAIN reveal_deadlines
                        /\ now <= reveal_deadlines[s]
                 /\ (ret' = FALSE) => commit_phase_orders'[s] = commit_phase_orders[s]
      ]_vars

---------------------------------------------------------------------------
(* AdMM pools: registerAdSlot, addLiquidity and addOrder of AMM_SWAP orders *)

AMMSlotIDs == {1}

AMMSlots == { AdSlot(s, 1, 0, MaxTime, 1, 0, TRUE) : s \in AMMSlotIDs }

AMMOrders ==
    { Order(s, "AMM_SWAP", b, 1, q, now, MaxTime + 1, 1, NoHash) :
        s \in AMMSlotIDs, b \in BOOLEAN, q \in 0..MaxSwap }

\* liquidity is added while the pool holds less than MaxReserve of each asset
CanAddLiquidity(s) ==
    s \in DOMAIN amm_pools =>
        /\ amm_pools[s].reserve_ausd < MaxReserve
        /\ amm_pools[s].reserve_supply < MaxReserve

RegisterAMM == \E slot \in AMMSlots : RegisterAdSlot(slot)
AddLiquidityAMM ==
    \E s \in AMMSlotIDs, a \in 0..MaxReserve, q \in 0..MaxReserve :
        CanAddLiquidity(s) /\ AddLiquidity(s, a, q)
AddOrderAMM == \E order \in AMMOrders : AddOrder(order)

NextAMM == RegisterAMM \/ AddLiquidityAMM \/ AddOrderAMM

SpecAMM == Init /\ [][NextAMM]_vars

\* neither reserve passed the end of its word: one reserve took the deposit
\* and the other gave the withdrawal
NoWrapAround(before, after) ==
    /\ after.reserve_ausd >= 0
    /\ \/ /\ after.reserve_ausd >= before.reserve_ausd
          /\ after.reserve_supply <= before.reserve_supply
       \/ /\ after.reserve_ausd <= before.reserve_ausd
          /\ after.reserve_supply >= before.reserve_supply

\* C4: AMM k-conservation: after a successful AMM_SWAP of quantity > 0 on a
\* pool with both reserves positive, reserve_ausd * reserve_supply is at least
\* what it was before the swap, and neither reserve wrapped around.
C4_KConservation ==
    [][ \A order \in AMMOrders :
          ( /\ AddOrder(order)
            /\ order.quantity > 0
            /\ order.slot_id \in DOMAIN amm_pools
            /\ amm_pools[order.slot_id].reserve_ausd > 0
            /\ amm_pools[order.slot_id].reserve_supply > 0
            /\ ret' = TRUE
            /\ ~halted' ) =>
          LET before == amm_pools[order.slot_id]
              after == amm_pools'[order.slot_id]
          IN  /\ after.reserve_ausd * after.reserve_supply
                     >= before.reserve_ausd * before.reserve_supply
              /\ NoWrapAround(before, after) ]_vars

---------------------------------------------------------------------------
(* Time-decay pricing: registerAdSlot and reads of getCurrentPrice while the
   clock advances by half milliseconds *)

HalfMs == NsPerMs \div 2

DecayHorizon == (MaxWindow + 2) * NsPerMs

\* the times the clock reaches
DecayTimes == { k * HalfMs : k \in 0..(2 * (MaxWindow + 2)) }

\* floor prices: none, small ones, and one of the size of the Price word
Floors == {0, 3, 4, Word \div 4}

DecaySlots ==
    { AdSlot(1, 1, st, st + w, 1, f, a) :
        st \in {0, NsPerMs},
        w \in { k * NsPerMs : k \in 1..MaxWindow },
        f \in Floors, a \in BOOLEAN }

TickDecay == Tick(HalfMs, DecayHorizon)
RegisterDecay == \E slot \in DecaySlots : RegisterAdSlot(slot)
ReadPrice == \E s \in DOMAIN ad_slots : GetCurrentPrice(s)

NextDecay == TickDecay \/ RegisterDecay \/ ReadPrice

SpecDecay == Init /\ [][NextDecay]_vars

\* C8: monotone decay: for a slot with start_time < end_time and
\* floor_cpm >= 0, the price read is 0 when the slot is inactive or
\* now > end_time, floor_cpm when now < start_time, exactly 1.5 * floor_cpm
\* (in Price arithmetic floor_cpm + floor_cpm / 2) at now = start_time,
\* exactly floor_cpm at now = end_time, and within [start_time, end_time] no
\* higher than the price at any earlier time of the window.
C8_MonotoneDecay ==
    [][ (OperationStep /\ call'.op = "getCurrentPrice" /\ ~halted') =>
          LET slot == ad_slots[call'.slot_id]
              price == current_price'
          IN  (slot.start_time < slot.end_time /\ slot.floor_cpm >= 0) =>
                IF ~slot.active \/ now > slot.end_time THEN price = 0
                ELSE IF now < slot.start_time THEN price = slot.floor_cpm
                ELSE /\ now = slot.start_time =>
                            price = slot.floor_cpm + slot.floor_cpm \div 2
                     /\ now = slot.end_time => price = slot.floor_cpm
                     /\ \A t \in DecayTimes :
                            (slot.start_time <= t /\ t < now) =>
                               \A earlier \in getCurrentPrice(slot, t) :
                                   IsTrap(earlier) \/ ValueOf(earlier) >= price
      ]_vars

---------------------------------------------------------------------------
(* Batch auction over resting limit orders: registerAdSlot, addOrder with
   LIMIT orders on both sides, and runBatchAuction *)

MEVSlots == { AdSlot(1, 1, 0, MaxTime, 1, 0, TRUE) }

MEVOrders ==
    { Order(1, "LIMIT", b, p, 1, c, MaxTime + 1, 1, NoHash) :
        b \in BOOLEAN, p \in 1..MaxPrice, c \in CreatedTimes }

TickMEV == Tick(1, MaxTime)
RegisterMEV == \E slot \in MEVSlots : RegisterAdSlot(slot)
AddOrderMEV ==
    \E order \in MEVOrders : AddOrder([order EXCEPT !.order_id = next_order_id])
RunBatchMEV == \E s \in DOMAIN ad_slots : RunBatchAuction(s)

NextMEV == TickMEV \/ RegisterMEV \/ AddOrderMEV \/ RunBatchMEV

SpecMEV == Init /\ [][NextMEV]_vars

\* the orders in which the orders of a set can be submitted
Submissions(orders) ==
    { f \in [1..Cardinality(orders) -> orders] :
        \A i, j \in 1..Cardinality(orders) : i # j => f[i] # f[j] }

\* the books addLimitOrder can leave after the submissions, one after another
RECURSIVE BooksAfter(_)
BooksAfter(submitted) ==
    IF submitted = << >> THEN { [bids |-> << >>, asks |-> << >>] }
    ELSE UNION { BookInsert(before.bids, before.asks, submitted[Len(submitted)]) :
                 before \in BooksAfter(SubSeq(submitted, 1, Len(submitted) - 1)) }

\* C6: batch anti-MEV: after runBatchAuction on a slot, every order in which
\* the slot's resting orders (same ids, prices, quantities, created times) can
\* have been submitted yields the same result: the same set of
\* (bid_id, ask_id) matches and the same clearing prices.
C6_BatchAntiMEV ==
    call.op = "runBatchAuction" =>
        \A submitted \in Submissions(RestingOrders(call.slot_id)) :
            \A books \in BooksAfter(submitted) :
                \A result \in BatchResults(books.bids, books.asks) :
                    /\ Range(result.matches) = Range(batch_result.matches)
                    /\ result.clearing_prices = batch_result.clearing_prices

---------------------------------------------------------------------------
(* The batch result against the crossing point of the two books *)

\* the limit prices of a book, best first
BidPrices(book) ==
    LET sorted == CHOOSE s \in SortOutcomes(book,
                      [i, j \in 1..Len(book) |-> BidLess(book[i], book[j])]) : TRUE
    IN  [i \in 1..Len(book) |-> sorted[i].limit_price]

AskPrices(book) ==
    LET sorted == CHOOSE s \in SortOutcomes(book,
                      [i, j \in 1..Len(book) |-> AskLess(book[i], book[j])]) : TRUE
    IN  [i \in 1..Len(book) |-> sorted[i].limit_price]

\* the largest k such that the k-th highest bid is at or above the k-th
\* lowest ask; 0 when there is none
CrossingPoint(bids, asks) ==
    LET crossing == { k \in 1..Min(Len(bids), Len(asks)) :
                        BidPrices(bids)[k] >= AskPrices(asks)[k] }
    IN  IF crossing = {} THEN 0
        ELSE CHOOSE k \in crossing : \A other \in crossing : other <= k

\* C11: batch crossing point: runBatchAuction returns exactly k matches, k
\* being the largest index with the k-th highest bid price >= the k-th lowest
\* ask price; match i pairs the i-th best bid with the i-th best ask, so no
\* bid id and no ask id is in more than one match, and k = 0 gives no match.
C11_CrossingPoint ==
    call.op = "runBatchAuction" =>
        LET bids == bid_books[call.slot_id]
            asks == ask_books[call.slot_id]
            k == CrossingPoint(bids, asks)
            matches == batch_result.matches
        IN  /\ Len(matches) = k
            /\ \A i \in 1..Len(matches) :
                 /\ i <= k
                 /\ \A b \in WithId(bids, matches[i][1]) :
                        b.limit_price = BidPrices(bids)[i]
                 /\ \A a \in WithId(asks, matches[i][2]) :
                        a.limit_price = AskPrices(asks)[i]
            /\ \A i, j \in 1..Len(matches) :
                 i # j => /\ matches[i][1] # matches[j][1]
                          /\ matches[i][2] # matches[j][2]

\* C12: uniform clearing price: when runBatchAuction returns a match,
\* clearing_prices has one entry per match, all entries are equal, and their
\* value is floor((ask_k.limit_price + bid_k.limit_price) / 2) for the marginal
\* pair k, a price in [ask_k.limit_price, bid_k.limit_price].
C12_UniformClearingPrice ==
    (call.op = "runBatchAuction" /\ batch_result.matches # << >>) =>
        LET bids == bid_books[call.slot_id]
            asks == ask_books[call.slot_id]
            k == CrossingPoint(bids, asks)
            prices == batch_result.clearing_prices
        IN  /\ Len(prices) = Len(batch_result.matches)
            /\ \A i, j \in 1..Len(prices) : prices[i] = prices[j]
            /\ k > 0
            /\ \A i \in 1..Len(prices) :
                 /\ prices[i] = CDiv(AskPrices(asks)[k] + BidPrices(bids)[k], 2)
                 /\ AskPrices(asks)[k] <= prices[i]
                 /\ prices[i] <= BidPrices(bids)[k]

---------------------------------------------------------------------------
(* Settlement of the batch result *)

\* the order of a match is gone from the book when the match filled it and
\* rests with a smaller quantity when it did not
Settled(book_before, book_after, id, fill_qty) ==
    \A o \in WithId(book_before, id) :
        IF o.quantity = fill_qty
        THEN WithId(book_after, id) = {}
        ELSE /\ WithId(book_after, id) # {}
             /\ \A left \in WithId(book_after, id) : left.quantity < o.quantity

\* C13: batch settlement: when runBatchAuction returns, every order that a
\* match filled in full (the fill being the smaller of the two quantities) is
\* removed from the slot's book and a partly filled one is reduced, so that a
\* second runBatchAuction cannot match an order the first filled in full.
C13_BatchSettlement ==
    [][ (OperationStep /\ call'.op = "runBatchAuction") =>
          LET s == call'.slot_id
              matches == batch_result'.matches
          IN  \A i \in 1..Len(matches) :
                \A b \in WithId(bid_books[s], matches[i][1]) :
                \A a \in WithId(ask_books[s], matches[i][2]) :
                  LET fill_qty == Min(b.quantity, a.quantity)
                  IN  /\ Settled(bid_books[s], bid_books'[s], b.order_id, fill_qty)
                      /\ Settled(ask_books[s], ask_books'[s], a.order_id, fill_qty)
      ]_vars

---------------------------------------------------------------------------
(* The immediate matcher over orders of any quantity: registerAdSlot and
   addOrder of LIMIT and MARKET orders, those of quantity 0 included *)

FillSlots == { AdSlot(1, 1, 0, MaxTime, 1, 0, TRUE) }

FillOrders ==
    { Order(1, ty, b, p, q, now, MaxTime + 1, 1, NoHash) :
        ty \in {"LIMIT", "MARKET"}, b \in BOOLEAN, p \in 1..MaxPrice,
        q \in 0..MaxQty }

RegisterFill == \E slot \in FillSlots : RegisterAdSlot(slot)
AddOrderFill == \E order \in FillOrders : AddOrder(order)

NextFill == RegisterFill \/ AddOrderFill

SpecFill == Init /\ [][NextFill]_vars

\* the orders with this id that the fills after the i-th pair on this side
LaterFills(i, side, id) ==
    { j \in (i + 1)..Len(fills) : fills[j][side].order_id = id }

\* after the i-th fill its order on this side is removed if the fill took
\* its whole quantity, and rests at the head reduced by the fill if not
ReducedOrRemoved(i, side, book) ==
    LET o == fills[i][side]
        rest == o.quantity - fills[i].fill.quantity
        later == LaterFills(i, side, o.order_id)
    IN  IF rest = 0
        THEN later = {} /\ WithId(book, o.order_id) = {}
        ELSE IF later # {}
        THEN \A j \in later :
                 (\A other \in later : j <= other) => fills[j][side].quantity = rest
        ELSE /\ WithId(book, o.order_id) # {}
             /\ \A left \in WithId(book, o.order_id) : left.quantity = rest

\* the orders of this side that were in the book when the i-th fill was made
BookAtFill(i, side, book) ==
    { fills[j][side] : j \in i..Len(fills) } \cup Range(book)

\* C14: immediate-match fill rule: every fill of the immediate matcher pairs
\* the best bid B with the best ask A of the slot, B.limit_price >=
\* A.limit_price, at the price A.limit_price and for the quantity
\* min(B.quantity, A.quantity) > 0; both orders are reduced by that quantity
\* and an order is removed exactly when its quantity reaches zero.
C14_ImmediateFillRule ==
    \A i \in 1..Len(fills) :
        LET B == fills[i].bid
            A == fills[i].ask
            fill == fills[i].fill
            bids == bid_books[B.slot_id]
            asks == ask_books[A.slot_id]
        IN  /\ fill.bid_id = B.order_id /\ fill.ask_id = A.order_id
            /\ \A o \in BookAtFill(i, "bid", bids) : B.limit_price >= o.limit_price
            /\ \A o \in BookAtFill(i, "ask", asks) : A.limit_price <= o.limit_price
            /\ B.limit_price >= A.limit_price
            /\ fill.price = A.limit_price
            /\ fill.quantity = Min(B.quantity, A.quantity)
            /\ fill.quantity > 0
            /\ ReducedOrRemoved(i, "bid", bids)
            /\ ReducedOrRemoved(i, "ask", asks)

\* the highest bid is below the lowest ask, or one of the books is empty
NotCrossed(bids, asks) ==
    \A b \in Range(bids), a \in Range(asks) : b.limit_price < a.limit_price

\* C20: right after addOrder of a MARKET order returns, the slot's book is
\* not crossed: a book is empty or the best bid's limit_price is strictly
\* below the best ask's; the matching loop ends, each of its iterations
\* removing at least one resting order.
C20_NotCrossedAfterMarket ==
    [][ \A order \in FillOrders :
          (AddOrder(order) /\ order.type = "MARKET" /\ ret' = TRUE) =>
            LET s == order.slot_id
                before == Len(bid_books[s]) + Len(ask_books[s]) + 1
                after == Len(bid_books'[s]) + Len(ask_books'[s])
            IN  /\ NotCrossed(bid_books'[s], ask_books'[s])
                /\ Len(fills') <= before - after ]_vars

\* C20 witness: an order has just been matched by the loop and orders still
\* rest on both sides
C20_Witness ==
    /\ call.op = "addOrder"
    /\ Len(fills) >= 1
    /\ \E s \in DOMAIN ad_slots : bid_books[s] # << >> /\ ask_books[s] # << >>

---------------------------------------------------------------------------
(* Orders that outlive their expires time: registerAdSlot, addOrder of LIMIT
   and MARKET orders that expire one tick after their submission or after the
   last tick, runBatchAuction, and the clock *)

ExpiryHorizon == MaxTime + 1

ExpirySlots == { AdSlot(1, 1, 0, ExpiryHorizon, 1, 0, TRUE) }

ExpiryOrders ==
    { Order(1, ty, b, 1, 1, now, e, 1, NoHash) :
        ty \in {"LIMIT", "MARKET"}, b \in BOOLEAN,
        e \in {now + 1, ExpiryHorizon + 1} }

TickExpiry == Tick(1, ExpiryHorizon)
RegisterExpiry == \E slot \in ExpirySlots : RegisterAdSlot(slot)
AddOrderExpiry == \E order \in ExpiryOrders : AddOrder(order)
RunBatchExpiry == \E s \in DOMAIN ad_slots : RunBatchAuction(s)

NextExpiry == TickExpiry \/ RegisterExpiry \/ AddOrderExpiry \/ RunBatchExpiry

SpecExpiry == Init /\ [][NextExpiry]_vars

\* C15: lazy expiry: no fill of the immediate matcher and no match of a batch
\* involves an order whose expires time is earlier than the time of the fill:
\* the matcher discards an order with now > expires instead of matching it.
C15_LazyExpiry ==
    [][ OperationStep =>
          /\ \A i \in 1..Len(fills') :
               /\ ~(now > fills'[i].bid.expires)
               /\ ~(now > fills'[i].ask.expires)
          /\ call'.op = "runBatchAuction" =>
               \A i \in 1..Len(batch_result'.matches) :
                 /\ \A b \in WithId(bid_books[call'.slot_id], batch_result'.matches[i][1]) :
                        ~(now > b.expires)
                 /\ \A a \in WithId(ask_books[call'.slot_id], batch_result'.matches[i][2]) :
                        ~(now > a.expires)
      ]_vars

---------------------------------------------------------------------------
(* The AMM pool after addLiquidity and swaps *)

\* C16: AMM swap direction and amount: a successful swap depositing qty_in
\* quote raises reserve_ausd by exactly qty_in and lowers reserve_supply to
\* floor(reserve_ausd * reserve_supply / (reserve_ausd + qty_in)), and
\* symmetrically for a swap depositing supply: the reserve mutations are the
\* ones getSwapPrice computed for the same direction.
C16_SwapDirectionAndAmount ==
    [][ \A order \in AMMOrders :
          ( /\ AddOrder(order)
            /\ order.quantity > 0
            /\ order.slot_id \in DOMAIN amm_pools
            /\ amm_pools[order.slot_id].reserve_ausd > 0
            /\ amm_pools[order.slot_id].reserve_supply > 0
            /\ ret' = TRUE
            /\ ~halted' ) =>
          LET before == amm_pools[order.slot_id]
              after == amm_pools'[order.slot_id]
              k == before.reserve_ausd * before.reserve_supply
          IN  IF order.is_buy
              THEN /\ after.reserve_supply = before.reserve_supply + order.quantity
                   /\ after.reserve_ausd = k \div (before.reserve_supply + order.quantity)
              ELSE /\ after.reserve_ausd = before.reserve_ausd + order.quantity
                   /\ after.reserve_supply = k \div (before.reserve_ausd + order.quantity)
      ]_vars

\* both reserves are >= 0 and last_price is their quotient when both are positive
PoolInvariant(pool) ==
    /\ pool.reserve_ausd >= 0
    /\ pool.reserve_supply >= 0
    /\ (pool.reserve_ausd > 0 /\ pool.reserve_supply > 0) =>
           pool.last_price = pool.reserve_ausd \div pool.reserve_supply

\* the pool a swap on this slot meets
PoolOf(s) == IF s \in DOMAIN amm_pools THEN amm_pools[s] ELSE ZeroPool

\* C17: AMM pool invariant: after any sequence of addLiquidity and AMM_SWAP
\* operations both reserves of every pool are >= 0 and, when both are
\* positive, last_price = reserve_ausd / reserve_supply; a swap on a pool with
\* a zero reserve, a swap whose quote is <= 0 and a swap that would leave
\* reserve_supply = 0 fail.
C17_PoolInvariant ==
    [][ ~halted' =>
          /\ \A s \in DOMAIN amm_pools' : PoolInvariant(amm_pools'[s])
          /\ \A order \in AMMOrders :
               (AddOrder(order) /\ ret' = TRUE) =>
                 /\ PoolOf(order.slot_id).reserve_ausd # 0
                 /\ PoolOf(order.slot_id).reserve_supply # 0
                 /\ \A quote \in getSwapPrice(PoolOf(order.slot_id),
                                              order.quantity, order.is_buy) :
                        IsTrap(quote) \/ ValueOf(quote) > 0
                 /\ amm_pools'[order.slot_id].reserve_supply # 0
      ]_vars

\* getStats: the counters a caller can read
getStats ==
    [total_orders |-> total_orders_processed, total_matches |-> total_matches,
     active_slots |-> Cardinality(DOMAIN ad_slots),
     active_pools |-> Cardinality(DOMAIN amm_pools)]

\* C19: an addOrder call that returns a rejection leaves the engine state as
\* it was: the books, the committed orders, the set of pools and their
\* reserves, the slots, and the counters of getStats.
C19_RejectionFrame ==
    [][ (OperationStep /\ call'.op = "addOrder" /\ ret' = FALSE /\ ~halted') =>
          /\ UNCHANGED << bid_books, ask_books, commit_phase_orders,
                          reveal_deadlines, amm_pools, ad_slots >>
          /\ getStats' = getStats
      ]_vars

---------------------------------------------------------------------------
(* The start of a commit phase *)

\* the entry of a slot in a map is as it was
SameEntry(before, after, s) ==
    /\ (s \in DOMAIN after) <=> (s \in DOMAIN before)
    /\ s \in DOMAIN before => after[s] = before[s]

\* C18: startCommitPhase(slot, duration) empties the slot's list of committed
\* orders, revealed or not, and sets the slot's deadline to now + duration, so
\* that an order committed before the call cannot be revealed after it (a
\* reveal succeeds only for an order in the list); the lists and deadlines
\* of the other slots are unchanged.
C18_StartCommitPhase ==
    [][ /\ \A s \in SlotIDs, d \in Durations :
             StartCommitPhase(s, d) =>
               /\ commit_phase_orders'[s] = << >>
               /\ reveal_deadlines'[s] = now + d * NsPerMs
               /\ \A id \in 1..MaxOrders : ~Committed(s, id)'
               /\ \A other \in SlotIDs \ {s} :
                    /\ SameEntry(commit_phase_orders, commit_phase_orders', other)
                    /\ SameEntry(reveal_deadlines, reveal_deadlines', other)
        /\ \A s \in SlotIDs, id \in 1..MaxOrders, p \in 1..MaxPrice, n \in Nonces :
             (RevealBid(s, id, p, n) /\ ret' = TRUE) => Committed(s, id)
      ]_vars

\* C18 witness: a commit phase has just been started on a slot, with a
\* deadline ahead, while the other slot holds a revealed commit and a deadline
C18_Witness ==
    /\ call.op = "startCommitPhase"
    /\ commit_phase_orders[call.slot_id] = << >>
    /\ reveal_deadlines[call.slot_id] > now
    /\ \E other \in SlotIDs \ {call.slot_id} :
         /\ other \in DOMAIN commit_phase_orders
         /\ other \in DOMAIN reveal_deadlines
         /\ \E i \in 1..Len(commit_phase_orders[other]) :
                commit_phase_orders[other][i].revealed

====
